---- MODULE Spec2Model ----
(***************************************************************************)
(* go-kube-get: KubeGet.Get and KubeGet.findGVR.                           *)
(*                                                                         *)
(* A Go string is a sequence of one-character strings.  An error value is  *)
(* the chain of its frames, outermost first; fmt.Errorf with %w puts one   *)
(* frame in front of the wrapped chain, and the nil error is the empty     *)
(* chain.  One behaviour is one call of Get, the collaborators answering   *)
(* each of their calls with any response of their response sets.           *)
(***************************************************************************)
EXTENDS Integers, Sequences, FiniteSets, TLC

\* Longest identifier passed to Get.
MaxLen == 4

\* Most group-version lists in one discovery snapshot.
MaxLists == 2

\* Most mappings in one RESTMappings answer.
MaxMappings == 2

\* The characters identifiers are made of: a lower-case letter, its upper-case
\* form, and the separator of fully-qualified names.
Alphabet == {"a", "A", "."}

Str(n) == UNION {[1..m -> Alphabet] : m \in 0..n}

Identifiers == Str(MaxLen)

Namespaces == {<<>>, <<"a">>}

(***************************************************************************)
(* The string functions of the Go library the code calls.                  *)
(***************************************************************************)
IsLower(c) == c = "a"

IsUpper(c) == c = "A"

IsLetter(c) == IsLower(c) \/ IsUpper(c)

UpperChar(c) == IF IsLower(c) THEN "A" ELSE c

LowerChar(c) == IF IsUpper(c) THEN "a" ELSE c

ToUpper(s) == [j \in 1..Len(s) |-> UpperChar(s[j])]

ToLower(s) == [j \in 1..Len(s) |-> LowerChar(s[j])]

\* strings.Title: the first letter of every word is upper-cased, a word
\* starting after any character that is no letter.
Title(s) == [j \in 1..Len(s) |-> IF j = 1 \/ ~IsLetter(s[j - 1]) THEN UpperChar(s[j]) ELSE s[j]]

EqualFold(s, t) == ToLower(s) = ToLower(t)

Contains(s, c) == \E j \in 1..Len(s) : s[j] = c

Count(s, c) == Cardinality({j \in 1..Len(s) : s[j] = c})

Index(s, c) == IF Contains(s, c) THEN CHOOSE j \in 1..Len(s) : s[j] = c /\ \A h \in 1..(j - 1) : s[h] # c ELSE 0

RECURSIVE Split(_, _)
Split(s, sep) == IF ~Contains(s, sep) THEN <<s>> ELSE <<SubSeq(s, 1, Index(s, sep) - 1)>> \o Split(SubSeq(s, Index(s, sep) + 1, Len(s)), sep)

RECURSIVE Join(_, _)
Join(parts, sep) == IF Len(parts) = 0 THEN <<>> ELSE IF Len(parts) = 1 THEN parts[1] ELSE parts[1] \o <<sep>> \o Join(Tail(parts), sep)

\* %q of fmt: the string between double quotes (no character of the alphabet
\* needs escaping).
Quote(s) == <<"\"">> \o s \o <<"\"">>

(***************************************************************************)
(* Descriptors and errors.                                                 *)
(***************************************************************************)
GroupVersionResource(g, v, r) == [Group |-> g, Version |-> v, Resource |-> r]

ZeroGVR == GroupVersionResource(<<>>, <<>>, <<>>)

NoErr == <<>>

NoArg == <<>>

\* fmt.Errorf(msg, arg, inner): a frame with the formatted argument, in
\* front of the chain it wraps.
Errorf(msg, arg, inner) == <<[msg |-> msg, arg |-> arg]>> \o inner


(***************************************************************************)
(* The collaborators' answers.                                             *)
(***************************************************************************)
\* The descriptors the mapping provider knows.
CoreGVR == GroupVersionResource(<<>>, <<"A">>, <<"a", "a">>)

AppsGVR == GroupVersionResource(<<"a">>, <<"A">>, <<"a">>)

MapperGVRs == {CoreGVR, AppsGVR}

MapperErr == <<[msg |-> "no matches", arg |-> NoArg]>>

DiscoveryErr == <<[msg |-> "unable to retrieve the server APIs", arg |-> NoArg]>>

ListErr == <<[msg |-> "the server could not find the requested resource", arg |-> NoArg]>>

\* ResourceFor answers a descriptor or an error.
ResourceForAnswers == {[gvr |-> g, err |-> NoErr] : g \in MapperGVRs} \cup {[gvr |-> ZeroGVR, err |-> MapperErr]}

\* RESTMappings answers the mappings (their Resource fields), in the
\* provider's order, and possibly an error.
MappingLists == UNION {[1..m -> MapperGVRs] : m \in 0..MaxMappings}

RESTMappingsAnswers == {[mappings |-> ms, err |-> e] : ms \in MappingLists, e \in {NoErr, MapperErr}}

\* The entries of the discovery snapshot (metav1.APIResource).
APIResource(name, kind, shortNames, namespaced) == [Name |-> name, Kind |-> kind, ShortNames |-> shortNames, Namespaced |-> namespaced]

PluralEntry == APIResource(<<"a", "a">>, <<"A", "a">>, <<<<"a">>>>, TRUE)

ClusterEntry == APIResource(<<"a">>, <<"A">>, <<>>, FALSE)

AliasEntry == APIResource(<<"a", "a", "a">>, <<"A", "a", "A">>, <<<<"a", "a">>, <<"A">>>>, TRUE)

\* One *metav1.APIResourceList of the snapshot; isNil is the nil pointer.
APIResourceList(groupVersion, apiResources) == [isNil |-> FALSE, GroupVersion |-> groupVersion, APIResources |-> apiResources]

NilResourceList == [isNil |-> TRUE, GroupVersion |-> <<>>, APIResources |-> <<>>]

CoreList == APIResourceList(<<"A">>, <<PluralEntry, ClusterEntry>>)

GroupList == APIResourceList(<<"a", "/", "A">>, <<AliasEntry, ClusterEntry>>)

MalformedList == APIResourceList(<<"a", "/", "A", "/", "a">>, <<ClusterEntry, PluralEntry>>)

ResourceLists == {NilResourceList, CoreList, GroupList, MalformedList}

Snapshots == UNION {[1..m -> ResourceLists] : m \in 0..MaxLists}

\* ServerPreferredResources answers a snapshot, whole or partial, and possibly
\* an error.
ServerPreferredResourcesAnswers == {[lists |-> ls, err |-> e] : ls \in Snapshots, e \in {NoErr, DiscoveryErr}}

\* List answers a collection (nil or not) and possibly an error.
Item(name, ns) == [name |-> name, namespace |-> ns]

UnstructuredList(items) == [isNil |-> FALSE, Items |-> items]

NilList == [isNil |-> TRUE, Items |-> <<>>]

ListAnswers == {[list |-> UnstructuredList(<<>>), err |-> NoErr], [list |-> UnstructuredList(<<Item(<<"a">>, <<"a">>)>>), err |-> NoErr], [list |-> NilList, err |-> ListErr], [list |-> UnstructuredList(<<>>), err |-> ListErr]}

\* schema.ParseGroupVersion.
ParseGroupVersion(gv) == IF Len(gv) = 0 \/ gv = <<"/">> THEN [Group |-> <<>>, Version |-> <<>>, err |-> FALSE] ELSE IF Count(gv, "/") = 0 THEN [Group |-> <<>>, Version |-> gv, err |-> FALSE] ELSE IF Count(gv, "/") = 1 THEN [Group |-> SubSeq(gv, 1, Index(gv, "/") - 1), Version |-> SubSeq(gv, Index(gv, "/") + 1, Len(gv)), err |-> FALSE] ELSE [Group |-> <<>>, Version |-> <<>>, err |-> TRUE]

(***************************************************************************)
(* findGVR's decisions.                                                    *)
(***************************************************************************)
\* Two parts taken as enough.
IsFullyQualified_TwoParts(name) == Contains(name, ".") /\ Len(Split(name, ".")) >= 2

\* The identifier is taken as fully qualified: it has a dot and splits into
\* three parts or more.
IsFullyQualified(name) == Contains(name, ".") /\ Len(Split(name, ".")) >= 3

\* The group cut at its first dot.
ParseFullyQualified_FirstGroupPart(name) == LET parts == Split(name, ".") IN GroupVersionResource(parts[3], parts[2], parts[1])

\* resource.version.group, the group keeping its dots.
ParseFullyQualified(name) == LET parts == Split(name, ".") IN GroupVersionResource(Join(SubSeq(parts, 3, Len(parts)), "."), parts[2], parts[1])

\* The direct lookup's answer not taken.
ResourceForHit_Never(ans) == FALSE

\* err == nil after ResourceFor.
ResourceForHit(ans) == ans.err = NoErr

\* err == nil && len(mappings) > 0 after RESTMappings.
KindHit(ans) == ans.err = NoErr /\ Len(ans.mappings) > 0

\* The snapshot's error passed over like a mapping miss.
SnapshotFailed_Swallowed(ans) == FALSE

\* err != nil after ServerPreferredResources.
SnapshotFailed(ans) == ans.err # NoErr

\* The candidate Kind spellings.
KindVariations(name) == <<name, Title(name), ToUpper(name), ToUpper(<<name[1]>>) \o ToLower(Tail(name))>>

\* The short names left out of the match.
MatchesResource_NoShortNames(apiResource, name) == apiResource.Name = name \/ EqualFold(apiResource.Kind, name)

\* One entry of the snapshot matches by plural name, by Kind whatever the
\* case, or by one of its short names.
MatchesResource(apiResource, name) == apiResource.Name = name \/ EqualFold(apiResource.Kind, name) \/ \E j \in 1..Len(apiResource.ShortNames) : apiResource.ShortNames[j] = name

NoMatch == [found |-> FALSE, gvr |-> ZeroGVR]

WithResource(gv, resource) == GroupVersionResource(gv.Group, gv.Version, resource)

\* The scan answering with the identifier in place of the entry's name.
RECURSIVE ScanResources_Identifier(_, _, _)
ScanResources_Identifier(apiResources, gv, name) == IF Len(apiResources) = 0 THEN NoMatch ELSE IF MatchesResource(Head(apiResources), name) THEN [found |-> TRUE, gvr |-> WithResource(gv, name)] ELSE ScanResources_Identifier(Tail(apiResources), gv, name)

RECURSIVE ScanResources(_, _, _)
ScanResources(apiResources, gv, name) == IF Len(apiResources) = 0 THEN NoMatch ELSE IF MatchesResource(Head(apiResources), name) THEN [found |-> TRUE, gvr |-> WithResource(gv, Head(apiResources).Name)] ELSE ScanResources(Tail(apiResources), gv, name)

\* A nil list and a list whose group-version does not parse are passed over.
SkipsList(apiResourceList) == apiResourceList.isNil \/ ParseGroupVersion(apiResourceList.GroupVersion).err

RECURSIVE ScanLists(_, _)
ScanLists(lists, name) == IF Len(lists) = 0 THEN NoMatch ELSE IF SkipsList(Head(lists)) THEN ScanLists(Tail(lists), name) ELSE LET r == ScanResources(Head(lists).APIResources, ParseGroupVersion(Head(lists).GroupVersion), name) IN IF r.found THEN r ELSE ScanLists(Tail(lists), name)

EmptyNameError == Errorf("resource name cannot be empty", NoArg, NoErr)

DiscoveryError(name, cause) == Errorf("failed to find resource", Quote(name), cause)

\* The not-found error naming the capitalised spelling tried last.
NotFoundError_Variation(name) == Errorf("failed to find resource: resource not found in any API group", Quote(ToUpper(<<name[1]>>) \o ToLower(Tail(name))), NoErr)

NotFoundError(name) == Errorf("failed to find resource: resource not found in any API group", Quote(name), NoErr)

(***************************************************************************)
(* Get's decisions.                                                        *)
(***************************************************************************)
\* err != nil after List.
ListFailed(ans) == ans.err # NoErr

\* The resolution error wrapped without the identifier.
ResolveError_Unnamed(name, cause) == Errorf("failed to find resource", NoArg, cause)

ResolveError(name, cause) == Errorf("failed to find resource", Quote(name), cause)

ListError(cause) == Errorf("failed to list resources", NoArg, cause)

\* Every listing restricted to the namespace argument, empty or not.
ListScope_Always(ns) == [scoped |-> TRUE, ns |-> ns]

\* Resource(gvr) or Resource(gvr).Namespace(namespace).
ListScope(ns) == IF ns # <<>> THEN [scoped |-> TRUE, ns |-> ns] ELSE [scoped |-> FALSE, ns |-> <<>>]

\* findGVR's error handed on as it is.
GetResolveFailed_Unwrapped(name, cause) == [gvr |-> ZeroGVR, list |-> NilList, err |-> cause]

GetResolveFailed(name, cause) == [gvr |-> ZeroGVR, list |-> NilList, err |-> ResolveError(name, cause)]

\* The descriptor dropped when the listing fails.
GetListFailed_ZeroGVR(g, cause) == [gvr |-> ZeroGVR, list |-> NilList, err |-> ListError(cause)]

GetListFailed(g, cause) == [gvr |-> g, list |-> NilList, err |-> ListError(cause)]

GetSucceeded(g, list) == [gvr |-> g, list |-> list, err |-> NoErr]

(***************************************************************************)
(* One call of Get.                                                        *)
(***************************************************************************)
VARIABLES k, resourceName, namespace, pc, calls, mapperErrSeen, gvr, err, mappings, kindVariations, i, apiResourceLists, ret

vars == <<k, resourceName, namespace, pc, calls, mapperErrSeen, gvr, err, mappings, kindVariations, i, apiResourceLists, ret>>

\* The KubeGet of NewKubeGet, and the zero KubeGet whose collaborators are nil.
KubeGets == {[restMapper |-> b, dynamicClient |-> b, discoveryClient |-> b] : b \in BOOLEAN}

\* One collaborator call as the collaborator sees it: the operation, the name
\* or the descriptor and scope it was given, whether its answer came without
\* error (and for RESTMappings with a mapping), and the descriptor such an
\* answer starts with.
Call(op, name, g, scope, ok, answer) == [op |-> op, name |-> name, gvr |-> g, scoped |-> scope.scoped, ns |-> scope.ns, ok |-> ok, answer |-> IF ok THEN answer ELSE ZeroGVR]

NoScope == [scoped |-> FALSE, ns |-> <<>>]

Init ==
    /\ k \in KubeGets
    /\ resourceName \in Identifiers
    /\ namespace \in Namespaces
    /\ pc = "findGVR"
    /\ calls = <<>>
    /\ mapperErrSeen = FALSE
    /\ gvr = ZeroGVR
    /\ err = NoErr
    /\ mappings = <<>>
    /\ kindVariations = <<>>
    /\ i = 0
    /\ apiResourceLists = <<>>
    /\ ret = [gvr |-> ZeroGVR, list |-> NilList, err |-> NoErr]

FindGVR_Return(g, e) ==
    /\ gvr' = g
    /\ err' = e
    /\ pc' = "findGVR_ret"

Panic ==
    /\ pc' = "panic"
    /\ UNCHANGED <<calls, mapperErrSeen, gvr, err, mappings, kindVariations, i, apiResourceLists>>

\* findGVR without its check of the empty name.
FindGVR_Empty_Unchecked ==
    /\ pc = "findGVR"
    /\ pc' = "fullyQualified"
    /\ UNCHANGED <<k, resourceName, namespace, calls, mapperErrSeen, gvr, err, mappings, kindVariations, i, apiResourceLists, ret>>

FindGVR_Empty ==
    /\ pc = "findGVR"
    /\ IF resourceName = <<>>
       THEN FindGVR_Return(ZeroGVR, EmptyNameError)
       ELSE pc' = "fullyQualified" /\ UNCHANGED <<gvr, err>>
    /\ UNCHANGED <<k, resourceName, namespace, calls, mapperErrSeen, mappings, kindVariations, i, apiResourceLists, ret>>

FindGVR_FullyQualified ==
    /\ pc = "fullyQualified"
    /\ IF IsFullyQualified(resourceName)
       THEN FindGVR_Return(ParseFullyQualified(resourceName), NoErr)
       ELSE pc' = "ResourceFor" /\ UNCHANGED <<gvr, err>>
    /\ UNCHANGED <<k, resourceName, namespace, calls, mapperErrSeen, mappings, kindVariations, i, apiResourceLists, ret>>

FindGVR_ResourceFor ==
    /\ pc = "ResourceFor"
    /\ IF ~k.restMapper
       THEN Panic
       ELSE \E ans \in ResourceForAnswers :
              /\ calls' = Append(calls, Call("ResourceFor", resourceName, ZeroGVR, NoScope, ans.err = NoErr, ans.gvr))
              /\ mapperErrSeen' = (mapperErrSeen \/ ans.err # NoErr)
              /\ IF ResourceForHit(ans)
                 THEN FindGVR_Return(ans.gvr, NoErr)
                 ELSE gvr' = ans.gvr /\ err' = ans.err /\ pc' = "RESTMappings"
              /\ UNCHANGED <<mappings, kindVariations, i, apiResourceLists>>
    /\ UNCHANGED <<k, resourceName, namespace, ret>>

\* A Kind lookup whose error ends findGVR.
LookupKind_Propagates(kind, missPc, missI) ==
    \E ans \in RESTMappingsAnswers :
      /\ calls' = Append(calls, Call("RESTMappings", kind, ZeroGVR, NoScope, ans.err = NoErr /\ Len(ans.mappings) > 0, IF Len(ans.mappings) > 0 THEN ans.mappings[1] ELSE ZeroGVR))
      /\ mapperErrSeen' = (mapperErrSeen \/ ans.err # NoErr)
      /\ mappings' = ans.mappings
      /\ IF ans.err # NoErr
         THEN FindGVR_Return(ZeroGVR, ans.err) /\ UNCHANGED i
         ELSE IF Len(ans.mappings) > 0
              THEN FindGVR_Return(ans.mappings[1], NoErr) /\ UNCHANGED i
              ELSE gvr' = gvr /\ err' = ans.err /\ pc' = missPc /\ i' = missI

\* A Kind lookup answering with the last mapping.
LookupKind_LastMapping(kind, missPc, missI) ==
    \E ans \in RESTMappingsAnswers :
      /\ calls' = Append(calls, Call("RESTMappings", kind, ZeroGVR, NoScope, ans.err = NoErr /\ Len(ans.mappings) > 0, IF Len(ans.mappings) > 0 THEN ans.mappings[1] ELSE ZeroGVR))
      /\ mapperErrSeen' = (mapperErrSeen \/ ans.err # NoErr)
      /\ mappings' = ans.mappings
      /\ IF KindHit(ans)
         THEN FindGVR_Return(ans.mappings[Len(ans.mappings)], NoErr) /\ UNCHANGED i
         ELSE gvr' = gvr /\ err' = ans.err /\ pc' = missPc /\ i' = missI

\* A Kind lookup made again when it fails.
LookupKind_RetriesOnError(kind, missPc, missI) ==
    \E ans \in RESTMappingsAnswers :
      /\ calls' = Append(calls, Call("RESTMappings", kind, ZeroGVR, NoScope, ans.err = NoErr /\ Len(ans.mappings) > 0, IF Len(ans.mappings) > 0 THEN ans.mappings[1] ELSE ZeroGVR))
      /\ mapperErrSeen' = (mapperErrSeen \/ ans.err # NoErr)
      /\ mappings' = ans.mappings
      /\ IF KindHit(ans)
         THEN FindGVR_Return(ans.mappings[1], NoErr) /\ UNCHANGED i
         ELSE IF ans.err # NoErr
              THEN gvr' = gvr /\ err' = ans.err /\ UNCHANGED <<pc, i>>
              ELSE gvr' = gvr /\ err' = ans.err /\ pc' = missPc /\ i' = missI

\* mappings, err := RESTMappings(kind), and the return on a hit.
LookupKind(kind, missPc, missI) ==
    \E ans \in RESTMappingsAnswers :
      /\ calls' = Append(calls, Call("RESTMappings", kind, ZeroGVR, NoScope, ans.err = NoErr /\ Len(ans.mappings) > 0, IF Len(ans.mappings) > 0 THEN ans.mappings[1] ELSE ZeroGVR))
      /\ mapperErrSeen' = (mapperErrSeen \/ ans.err # NoErr)
      /\ mappings' = ans.mappings
      /\ IF KindHit(ans)
         THEN FindGVR_Return(ans.mappings[1], NoErr) /\ UNCHANGED i
         ELSE gvr' = gvr /\ err' = ans.err /\ pc' = missPc /\ i' = missI

FindGVR_RESTMappings ==
    /\ pc = "RESTMappings"
    /\ LookupKind(resourceName, "kindVariations", i)
    /\ UNCHANGED <<k, resourceName, namespace, kindVariations, apiResourceLists, ret>>

\* The variations built by indexing the second character.
FindGVR_KindVariations_SecondChar ==
    /\ pc = "kindVariations"
    /\ IF Len(resourceName) < 2
       THEN Panic
       ELSE /\ kindVariations' = KindVariations(resourceName)
            /\ i' = 1
            /\ pc' = "kindLoop"
            /\ UNCHANGED <<calls, mapperErrSeen, gvr, err, mappings, apiResourceLists>>
    /\ UNCHANGED <<k, resourceName, namespace, ret>>

FindGVR_KindVariations ==
    /\ pc = "kindVariations"
    /\ IF Len(resourceName) = 0
       THEN Panic
       ELSE /\ kindVariations' = KindVariations(resourceName)
            /\ i' = 1
            /\ pc' = "kindLoop"
            /\ UNCHANGED <<calls, mapperErrSeen, gvr, err, mappings, apiResourceLists>>
    /\ UNCHANGED <<k, resourceName, namespace, ret>>

FindGVR_KindLoop ==
    /\ pc = "kindLoop"
    /\ i <= Len(kindVariations)
    /\ LookupKind(kindVariations[i], IF i < Len(kindVariations) THEN "kindLoop" ELSE "ServerPreferredResources", i + 1)
    /\ UNCHANGED <<k, resourceName, namespace, kindVariations, apiResourceLists, ret>>

\* apiResourceLists, err := ServerPreferredResources(); the loop's mappings
\* are out of scope.
FindGVR_ServerPreferredResources ==
    /\ pc = "ServerPreferredResources"
    /\ IF ~k.discoveryClient
       THEN Panic
       ELSE \E ans \in ServerPreferredResourcesAnswers :
              /\ calls' = Append(calls, Call("ServerPreferredResources", <<>>, ZeroGVR, NoScope, ans.err = NoErr, ZeroGVR))
              /\ apiResourceLists' = ans.lists
              /\ mappings' = <<>>
              /\ IF SnapshotFailed(ans)
                 THEN FindGVR_Return(ZeroGVR, DiscoveryError(resourceName, ans.err))
                 ELSE gvr' = gvr /\ err' = ans.err /\ pc' = "scan"
              /\ UNCHANGED <<mapperErrSeen, kindVariations, i>>
    /\ UNCHANGED <<k, resourceName, namespace, ret>>

FindGVR_Scan ==
    /\ pc = "scan"
    /\ IF ScanLists(apiResourceLists, resourceName).found
       THEN FindGVR_Return(ScanLists(apiResourceLists, resourceName).gvr, NoErr)
       ELSE FindGVR_Return(ZeroGVR, NotFoundError(resourceName))
    /\ UNCHANGED <<k, resourceName, namespace, calls, mapperErrSeen, mappings, kindVariations, i, apiResourceLists, ret>>

Get_ResolveFailed ==
    /\ pc = "findGVR_ret"
    /\ err # NoErr
    /\ ret' = GetResolveFailed(resourceName, err)
    /\ pc' = "done"
    /\ UNCHANGED <<k, resourceName, namespace, calls, mapperErrSeen, gvr, err, mappings, kindVariations, i, apiResourceLists>>

Get_List ==
    /\ pc = "findGVR_ret"
    /\ err = NoErr
    /\ IF ~k.dynamicClient
       THEN Panic /\ UNCHANGED ret
       ELSE \E ans \in ListAnswers :
              /\ calls' = Append(calls, Call("List", <<>>, gvr, ListScope(namespace), ans.err = NoErr, ZeroGVR))
              /\ ret' = IF ListFailed(ans) THEN GetListFailed(gvr, ans.err) ELSE GetSucceeded(gvr, ans.list)
              /\ pc' = "done"
              /\ UNCHANGED <<mapperErrSeen, gvr, err, mappings, kindVariations, i, apiResourceLists>>
    /\ UNCHANGED <<k, resourceName, namespace>>

Next ==
    \/ FindGVR_Empty
    \/ FindGVR_FullyQualified
    \/ FindGVR_ResourceFor
    \/ FindGVR_RESTMappings
    \/ FindGVR_KindVariations
    \/ FindGVR_KindLoop
    \/ FindGVR_ServerPreferredResources
    \/ FindGVR_Scan
    \/ Get_ResolveFailed
    \/ Get_List

Spec == Init /\ [][Next]_vars

(***************************************************************************)
(* Properties.                                                             *)
(***************************************************************************)
IsResolverCall(c) == c.op # "List"

\* The calls findGVR made, in order.
ResolverCalls == SelectSeq(calls, IsResolverCall)

IsListCall(c) == c.op = "List"

ListCalls == SelectSeq(calls, IsListCall)

\* findGVR has returned its descriptor and error to Get.
FindGVRReturned == pc \in {"findGVR_ret", "done"}

InvalidInput == <<[msg |-> "resource name cannot be empty", arg |-> NoArg]>>

\* The identifier splits on dots into three segments or more.
ThreeSegments == Count(resourceName, ".") >= 2

\* C1: with the empty identifier findGVR returns the invalid-input error and
\* Get an error, no collaborator is ever called, and nothing faults even
\* when the collaborators are nil.
C1_EmptyIdentifier ==
    resourceName = <<>> =>
        /\ calls = <<>>
        /\ pc \in {"findGVR", "findGVR_ret", "done"}
        /\ FindGVRReturned => err = InvalidInput /\ gvr = ZeroGVR
        /\ pc = "done" => ret.err # NoErr

C1_Witness == resourceName = <<>> /\ ~k.restMapper /\ ~k.discoveryClient /\ ~k.dynamicClient /\ pc = "done" /\ ret.err # NoErr

\* C2: an identifier of three dot-separated segments or more is resolved
\* without any collaborator call and without error to the descriptor whose
\* resource and version are the first two segments and whose group is the
\* whole remainder after the second dot, dots included.
C2_FullyQualified ==
    ThreeSegments =>
        /\ ResolverCalls = <<>>
        /\ pc \in {"findGVR", "fullyQualified", "findGVR_ret", "done", "panic"}
        /\ FindGVRReturned =>
             /\ err = NoErr
             /\ ~Contains(gvr.Resource, ".")
             /\ ~Contains(gvr.Version, ".")
             /\ resourceName = gvr.Resource \o <<".">> \o gvr.Version \o <<".">> \o gvr.Group

C2_Witness == pc = "findGVR_ret" /\ resourceName = <<"a", ".", ".", ".">> /\ gvr = GroupVersionResource(<<".">>, <<>>, <<"a">>) /\ calls = <<>>

StrategyOps == <<"ResourceFor", "RESTMappings", "RESTMappings", "RESTMappings", "RESTMappings", "RESTMappings", "ServerPreferredResources">>

\* C3: findGVR's calls follow the fixed order direct lookup, Kind lookup,
\* four Kind variations, snapshot fetch, none being made for a fully
\* qualified identifier; every call but the last gave no result; findGVR
\* fails only after the snapshot fetch; and when the last call is a mapping
\* lookup that gave a result, findGVR returns exactly the descriptor that
\* answer starts with and calls nothing more.
C3_StrategyOrder ==
    /\ Len(ResolverCalls) <= Len(StrategyOps)
    /\ \A j \in 1..Len(ResolverCalls) : ResolverCalls[j].op = StrategyOps[j]
    /\ \A j \in 1..Len(ResolverCalls) : j <= 2 => ResolverCalls[j].name = resourceName
    /\ \A j \in 1..(Len(ResolverCalls) - 1) : ~ResolverCalls[j].ok
    /\ \A j \in 1..Len(calls) : IsListCall(calls[j]) => j = Len(calls) /\ pc = "done"
    /\ ThreeSegments => ResolverCalls = <<>>
    /\ (FindGVRReturned /\ ResolverCalls # <<>>) =>
         LET last == ResolverCalls[Len(ResolverCalls)] IN
           /\ ~last.ok => last.op = "ServerPreferredResources" /\ err # NoErr
           /\ (last.ok /\ last.op # "ServerPreferredResources") => err = NoErr /\ gvr = last.answer
    /\ (FindGVRReturned /\ ResolverCalls = <<>>) => resourceName = <<>> \/ ThreeSegments

C3_Witness == pc = "findGVR_ret" /\ resourceName = <<"a">> /\ Len(calls) = 1 /\ calls[1].op = "ResourceFor" /\ calls[1].ok /\ gvr = AppsGVR /\ err = NoErr

\* C4: when the listing fails after a successful resolution, Get returns the
\* resolved descriptor, the nil collection, and the listing error wrapped.
C4_ListFailureKeepsDescriptor ==
    (pc = "done" /\ ListCalls # <<>> /\ ~ListCalls[1].ok) =>
        /\ err = NoErr
        /\ ret.gvr = gvr
        /\ ret.list = NilList
        /\ ret.err = <<[msg |-> "failed to list resources", arg |-> NoArg]>> \o ListErr

C4_Witness == pc = "done" /\ ListCalls # <<>> /\ ~ListCalls[1].ok /\ ret.gvr = CoreGVR /\ ret.err # NoErr

\* C5: when findGVR fails, Get makes no listing call and returns the zero
\* descriptor, the nil collection, and findGVR's error wrapped in a frame
\* "failed to find resource" that quotes the identifier as given.
C5_ResolutionFailure ==
    (FindGVRReturned /\ err # NoErr) =>
        /\ ListCalls = <<>>
        /\ pc = "done" =>
             /\ ret.gvr = ZeroGVR
             /\ ret.list = NilList
             /\ ret.err = <<[msg |-> "failed to find resource", arg |-> <<"\"">> \o resourceName \o <<"\"">>]>> \o err

C5_Witness == pc = "done" /\ resourceName = <<"a", "A">> /\ err # NoErr /\ err[Len(err)] = DiscoveryErr[1] /\ ret.err # NoErr /\ ListCalls = <<>>

\* C6: after a successful resolution Get makes exactly one listing call, on
\* the resolved descriptor, restricted to the namespace argument exactly
\* when that argument is not empty, whatever the scope of the resource.
C6_ListingScope ==
    (pc = "done" /\ err = NoErr) =>
        /\ Len(ListCalls) = 1
        /\ ListCalls[1].gvr = gvr
        /\ ListCalls[1].scoped <=> namespace # <<>>
        /\ ListCalls[1].ns = namespace

C6_Witness == pc = "done" /\ resourceName = <<"A">> /\ namespace = <<"a">> /\ apiResourceLists = <<CoreList>> /\ ~ClusterEntry.Namespaced /\ gvr = GroupVersionResource(<<>>, <<"A">>, ClusterEntry.Name) /\ Len(ListCalls) = 1 /\ ListCalls[1].scoped

\* The positions <<list, entry>> of the snapshot's entries, and their order.
Positions == UNION {{<<a, b>> : b \in 1..Len(apiResourceLists[a].APIResources)} : a \in 1..Len(apiResourceLists)}

Before(p, q) == p[1] < q[1] \/ (p[1] = q[1] /\ p[2] < q[2])

ListAt(p) == apiResourceLists[p[1]]

EntryAt(p) == apiResourceLists[p[1]].APIResources[p[2]]

\* The identifier is the entry's plural name, its Kind in some letter case,
\* or one of its short names.
AnswersTo(entry, x) == entry.Name = x \/ ToLower(entry.Kind) = ToLower(x) \/ x \in {entry.ShortNames[j] : j \in 1..Len(entry.ShortNames)}

\* The list's group-version is "version" or "group/version".
Parses(list) == Count(list.GroupVersion, "/") <= 1

\* The descriptor has the entry's plural name and the list's group and version.
DescribedBy(g, list, entry) == g.Resource = entry.Name /\ list.GroupVersion = (IF g.Group = <<>> THEN g.Version ELSE g.Group \o <<"/">> \o g.Version)

\* findGVR returned after fetching the snapshot without error.
ScanReturned == FindGVRReturned /\ ResolverCalls # <<>> /\ ResolverCalls[Len(ResolverCalls)].op = "ServerPreferredResources" /\ ResolverCalls[Len(ResolverCalls)].ok

\* findGVR's last call is a snapshot fetch that failed.
SnapshotErred == ResolverCalls # <<>> /\ ResolverCalls[Len(ResolverCalls)].op = "ServerPreferredResources" /\ ~ResolverCalls[Len(ResolverCalls)].ok

Eligible(p) == Parses(ListAt(p)) /\ AnswersTo(EntryAt(p), resourceName)

\* C7: when the snapshot is obtained and none of its usable entries answers
\* to the identifier, findGVR returns the zero descriptor and the not-found
\* error quoting the identifier exactly as given.
C7_NotFound ==
    (ScanReturned /\ \A p \in Positions : ~Eligible(p)) =>
        /\ gvr = ZeroGVR
        /\ err = <<[msg |-> "failed to find resource: resource not found in any API group", arg |-> <<"\"">> \o resourceName \o <<"\"">>]>>

C7_Witness == pc = "findGVR_ret" /\ ScanReturned /\ resourceName = <<"a", "A">> /\ apiResourceLists = <<GroupList>> /\ Len(err) = 1 /\ kindVariations[4] = <<"A", "a">>

\* C8: when the snapshot fetch fails, findGVR returns at once the zero
\* descriptor and the fetch's error wrapped with the identifier, matching no
\* entry of whatever partial snapshot came with the error.
C8_SnapshotFailure ==
    SnapshotErred =>
        /\ FindGVRReturned
        /\ gvr = ZeroGVR
        /\ err = <<[msg |-> "failed to find resource", arg |-> <<"\"">> \o resourceName \o <<"\"">>]>> \o DiscoveryErr

C8_Witness == pc = "findGVR_ret" /\ SnapshotErred /\ resourceName = <<"a">> /\ apiResourceLists = <<CoreList>> /\ AnswersTo(CoreList.APIResources[1], resourceName) /\ err # NoErr

\* C9: with a non-empty identifier findGVR returns no error, the not-found
\* error or the wrapped snapshot error; no frame of the mapping provider's
\* error is ever in what it returns.
C9_MapperErrorsSwallowed ==
    (resourceName # <<>> /\ FindGVRReturned) =>
        /\ \/ err = NoErr
           \/ err = <<[msg |-> "failed to find resource: resource not found in any API group", arg |-> <<"\"">> \o resourceName \o <<"\"">>]>>
           \/ err = <<[msg |-> "failed to find resource", arg |-> <<"\"">> \o resourceName \o <<"\"">>]>> \o DiscoveryErr
        /\ \A j \in 1..Len(err) : err[j] # MapperErr[1]

C9_Witness == pc = "findGVR_ret" /\ mapperErrSeen /\ Len(calls) = 4 /\ ~calls[1].ok /\ calls[4].ok /\ err = NoErr /\ gvr = CoreGVR

\* C10 as stated: the scan returns the descriptor of the first entry of the
\* whole snapshot that answers to the identifier.
C10_FirstOfAllEntries ==
    ScanReturned =>
        \A p \in Positions :
            (AnswersTo(EntryAt(p), resourceName) /\ \A q \in Positions : Before(q, p) => ~AnswersTo(EntryAt(q), resourceName)) =>
                err = NoErr /\ DescribedBy(gvr, ListAt(p), EntryAt(p))

\* C10, amended: the scan returns the descriptor of the first entry that
\* answers to the identifier among the lists whose group-version parses,
\* the lists with a malformed group-version being passed over whole.
C10_FirstOfParsedEntries ==
    ScanReturned =>
        \A p \in Positions :
            (Eligible(p) /\ \A q \in Positions : Before(q, p) => ~Eligible(q)) =>
                err = NoErr /\ DescribedBy(gvr, ListAt(p), EntryAt(p))

C10_Witness == pc = "findGVR_ret" /\ ScanReturned /\ resourceName = <<"a", "a">> /\ apiResourceLists = <<MalformedList, GroupList>> /\ gvr = GroupVersionResource(<<"a">>, <<"A">>, AliasEntry.Name) /\ err = NoErr

\* The first letter upper-cased, the remainder as it is.
Cap(x) == <<UpperChar(x[1])>> \o Tail(x)

\* The first letter upper-cased, the remainder lower-cased.
CapLower(x) == <<UpperChar(x[1])>> \o ToLower(Tail(x))

\* The Kind lookups of the variation retry, in order.
VariationLookups == SubSeq(ResolverCalls, 3, IF Len(ResolverCalls) < 6 THEN Len(ResolverCalls) ELSE 6)

\* C11: the Kind lookups of the variation retry are made, in this order, on
\* the identifier unchanged, on it with the first letter upper-cased and
\* the remainder unchanged, on it fully upper-cased, and on it with the
\* first letter upper-cased and the remainder lower-cased; a lookup that
\* gave a result is the last one.
C11_VariationLookups ==
    /\ \A j \in 1..Len(VariationLookups) : VariationLookups[j].op = "RESTMappings" => VariationLookups[j].name = <<resourceName, Cap(resourceName), ToUpper(resourceName), CapLower(resourceName)>>[j]
    /\ \A j \in 1..(Len(VariationLookups) - 1) : ~VariationLookups[j].ok

\* C12 as stated: the resource of every descriptor findGVR returns without
\* error is a lower-case name.
C12_ResourceLowercase ==
    (FindGVRReturned /\ err = NoErr) => ToLower(gvr.Resource) = gvr.Resource

\* C12, amended: a descriptor from the lookups or the scan carries the
\* resource name the collaborator gave (the answer's resource, or the plural
\* name of a snapshot entry answering to the identifier), which is lower-case
\* as the collaborators' names are; the fully-qualified parse returns the
\* identifier's first segment as it is written.
C12_ResourceAsProvided ==
    (FindGVRReturned /\ err = NoErr) =>
        IF ThreeSegments
        THEN ~Contains(gvr.Resource, ".") /\ SubSeq(resourceName, 1, Len(gvr.Resource) + 1) = gvr.Resource \o <<".">>
        ELSE /\ ToLower(gvr.Resource) = gvr.Resource
             /\ ResolverCalls # <<>>
             /\ ResolverCalls[Len(ResolverCalls)].op # "ServerPreferredResources" => gvr.Resource = ResolverCalls[Len(ResolverCalls)].answer.Resource
             /\ ResolverCalls[Len(ResolverCalls)].op = "ServerPreferredResources" => \E p \in Positions : AnswersTo(EntryAt(p), resourceName) /\ gvr.Resource = EntryAt(p).Name

C12_Witness == pc = "findGVR_ret" /\ ScanReturned /\ resourceName = <<"A">> /\ apiResourceLists = <<GroupList>> /\ err = NoErr /\ gvr.Resource = AliasEntry.Name /\ AliasEntry.ShortNames[2] = resourceName

\* C13 as stated: every error Get returns has a frame that quotes the
\* identifier.
C13_EveryErrorNamesIdentifier ==
    (pc = "done" /\ ret.err # NoErr) => \E j \in 1..Len(ret.err) : ret.err[j].arg = <<"\"">> \o resourceName \o <<"\"">>

\* C13, amended: a resolution error comes back under a frame quoting the
\* identifier; the listing error comes back under the frame "failed to list
\* resources" with no frame naming the identifier or the descriptor, the
\* resolved descriptor being Get's first result.
C13_ErrorContext ==
    (pc = "done" /\ ret.err # NoErr) =>
        IF err # NoErr
        THEN ret.err[1] = [msg |-> "failed to find resource", arg |-> <<"\"">> \o resourceName \o <<"\"">>]
        ELSE /\ ret.err[1] = [msg |-> "failed to list resources", arg |-> NoArg]
             /\ \A j \in 1..Len(ret.err) : ret.err[j].arg = NoArg
             /\ ret.gvr = gvr

C13_Witness == pc = "done" /\ err = NoErr /\ ret.err # NoErr /\ resourceName = <<"a", "a">> /\ ret.gvr = AppsGVR /\ Len(ret.err) = 2

SameCall(c, d) == c.op = d.op /\ c.name = d.name /\ c.gvr = d.gvr /\ c.scoped = d.scoped /\ c.ns = d.ns

CallsOf(op) == {j \in 1..Len(calls) : calls[j].op = op}

\* C14 as stated: a call that gave no result is never made again with the
\* same arguments.
C14_NoRepeatedCall ==
    \A j, h \in 1..Len(calls) : (j < h /\ ~calls[j].ok) => ~SameCall(calls[j], calls[h])

\* C14, amended: the direct lookup, the snapshot fetch and the listing are
\* each called at most once, and the Kind lookups are one on the identifier
\* followed by one for each candidate of the variation list in turn, so that
\* a spelling is looked up again only where the list repeats it.
C14_OneCallPerStep ==
    /\ Cardinality(CallsOf("ResourceFor")) <= 1
    /\ Cardinality(CallsOf("ServerPreferredResources")) <= 1
    /\ Cardinality(CallsOf("List")) <= 1
    /\ \A j \in 1..Len(ResolverCalls) : ResolverCalls[j].op = "RESTMappings" =>
         /\ j >= 2
         /\ j = 2 => ResolverCalls[j].name = resourceName
         /\ j > 2 => j - 2 <= Len(kindVariations) /\ ResolverCalls[j].name = kindVariations[j - 2]

C14_Witness == pc = "findGVR_ret" /\ resourceName = <<"a">> /\ Len(calls) = 3 /\ ~calls[2].ok /\ SameCall(calls[2], calls[3]) /\ calls[3].ok

\* C15: the variation list is the identifier, the identifier with its first
\* letter upper-cased, the identifier upper-cased, and again the identifier
\* with its first letter upper-cased, the remainder keeping its case.
C15_FourthRepeatsSecond ==
    Len(kindVariations) > 0 => kindVariations = <<resourceName, Cap(resourceName), ToUpper(resourceName), Cap(resourceName)>>

\* C16: an identifier with one dot is not parsed as fully qualified and is
\* no error by itself: its first call is the direct lookup on the whole
\* identifier, dot included, and what findGVR returns is what the lookups
\* and the scan give for it.
C16_TwoSegmentsFallThrough ==
    (Count(resourceName, ".") = 1 /\ k.restMapper /\ pc \notin {"findGVR", "fullyQualified", "ResourceFor"}) =>
        /\ ResolverCalls # <<>>
        /\ ResolverCalls[1].op = "ResourceFor"
        /\ ResolverCalls[1].name = resourceName
        /\ (FindGVRReturned /\ ResolverCalls[Len(ResolverCalls)].op # "ServerPreferredResources") => err = NoErr /\ gvr = ResolverCalls[Len(ResolverCalls)].answer
        /\ (FindGVRReturned /\ err # NoErr) => ResolverCalls[Len(ResolverCalls)].op = "ServerPreferredResources"

C16_Witness == pc = "findGVR_ret" /\ resourceName = <<"a", ".", "A">> /\ Len(calls) = 1 /\ calls[1].op = "ResourceFor" /\ calls[1].name = <<"a", ".", "A">> /\ calls[1].ok /\ gvr = CoreGVR

\* findGVR's last call is a Kind lookup.
KindLookupLast == ResolverCalls # <<>> /\ ResolverCalls[Len(ResolverCalls)].op = "RESTMappings"

\* C17: a Kind lookup answering one mapping or more without error makes
\* findGVR return the first of them in the order answered, and one answering
\* no mapping without error lets findGVR go on.
C17_FirstMapping ==
    KindLookupLast =>
        /\ (err = NoErr /\ Len(mappings) > 0) => FindGVRReturned /\ gvr = mappings[1]
        /\ (err = NoErr /\ Len(mappings) = 0) => pc \in {"kindVariations", "kindLoop", "ServerPreferredResources"}

C17_Witness == pc = "findGVR_ret" /\ KindLookupLast /\ mappings = <<AppsGVR, CoreGVR>> /\ gvr = AppsGVR /\ err = NoErr

\* C18: building the variations never faults: findGVR with its collaborators
\* set never panics, the variation step is never reached with the empty
\* identifier, and for an identifier of one character the four candidates
\* are built, each of one character, and all looked up before the snapshot
\* is fetched.
C18_VariationsNeverFault ==
    /\ k.restMapper => pc # "panic"
    /\ pc = "kindVariations" => Len(resourceName) > 0
    /\ (Len(resourceName) = 1 /\ pc \in {"kindLoop", "ServerPreferredResources", "scan"}) =>
         /\ Len(kindVariations) = 4
         /\ \A j \in 1..Len(kindVariations) : Len(kindVariations[j]) = 1
         /\ pc # "kindLoop" => Cardinality(CallsOf("RESTMappings")) = 5

C18_Witness == pc = "ServerPreferredResources" /\ resourceName = <<"a">> /\ Len(calls) = 6 /\ calls[6].name = <<"A">> /\ kindVariations = <<<<"a">>, <<"A">>, <<"A">>, <<"A">>>>

====
